---- MODULE Spec2Model ----
(***************************************************************************)
(* Model of resources/textures/atlas_generator.py: TextureAtlasBuilder     *)
(* (capacity check, grid layout, per-texture placement, UV computation,    *)
(* metadata recording, output writing) and the main() entry point.         *)
(*                                                                         *)
(* A texture file is a record [name, ok]: name is the identifier           *)
(* os.path.splitext(os.path.basename(path))[0], ok says whether            *)
(* Image.open(...).convert(...)/resize succeed on it.  A file is           *)
(* identified by its 0-based index in the caller's list.                   *)
(*                                                                         *)
(* Python floats are IEEE-754 binary64.  A float is modelled exactly as    *)
(* [neg, sig, exp]: sig is the 53-bit significand, most significant bit    *)
(* first (sig[1] = 1), and the value is (-1)^neg * sig * 2^exp; zero is    *)
(* [neg |-> FALSE, sig |-> <<>>, exp |-> 0].  Division, multiplication and *)
(* subtraction round to nearest, ties to even, as the hardware does.       *)
(***************************************************************************)
EXTENDS Integers, Sequences, FiniteSets, TLC

VARIABLES
    pc,                 \* position in main() / create_atlas()
    entry,              \* "main": run through main(); "direct": create_atlas called directly
    texture_size,       \* self.texture_size
    target_atlas_size,  \* self.target_atlas_size
    metadata_path,      \* TRUE iff a metadata_path was passed
    supplied,           \* the caller's list of texture files
    texture_files,      \* the local texture_files (after truncation)
    num_textures,       \* the local num_textures
    textures_per_side,  \* the local textures_per_side
    actual_atlas_size,  \* the local actual_atlas_size
    idx,                \* loop index of enumerate(texture_files)
    atlas,              \* the atlas image: set of pasted tiles [src, x, y]
    metadata,           \* the metadata dict
    atlas_file,         \* output_path on disk: "absent", "partial", "complete"
    meta_file,          \* metadata_path on disk: "absent", "partial", "complete"
    error,              \* exception propagating to the caller, or "none"
    ret,                \* return value of main(), or -1 while there is none
    probe               \* UV probe: one placement and its inverse transform

vars == <<pc, entry, texture_size, target_atlas_size, metadata_path, supplied,
          texture_files, num_textures, textures_per_side, actual_atlas_size,
          idx, atlas, metadata, atlas_file, meta_file, error, ret, probe>>

-----------------------------------------------------------------------------
(* Bounds of the model *)

\* longest list of texture files supplied to a run
MaxFiles == 5

\* largest grid side (cells per side) of the UV probe
MaxSide == 22

\* identifiers the supplied files may have
Names == {"a", "b"}

\* tile sizes of the UV probe
ProbeTileSizes == {8, 16}

(* Program constants *)

\* main(): TEXTURE_SIZE
TEXTURE_SIZE == 16

\* main(): ATLAS_SIZE
ATLAS_SIZE == 1024

\* number of extensions main() globs for: '*.png', '*.jpg', '*.jpeg'
NumExtensions == 3

\* significand width of a Python float (IEEE-754 binary64)
Prec == 53

\* (texture_size, target_atlas_size) of directly constructed builders:
\* capacities 0, 1, 4, 9 and the constructor's defaults (8, 1024)
DirectConfigs == {<<16, 8>>, <<16, 16>>, <<16, 32>>, <<16, 48>>, <<8, 1024>>}

-----------------------------------------------------------------------------
(* Bit strings, most significant bit first.  Arithmetic on them goes through *)
(* limbs of 16 bits, so that every intermediate value stays below 2^31.     *)

Zeros(n) == [i \in 1..n |-> 0]

\* the w low binary digits of n >= 0
BitsOf(n, w) == [i \in 1..w |-> (n \div 2^(w - i)) % 2]

\* b without its leading zeros
StripZeros(b) ==
    LET nz == {i \in 1..Len(b) : b[i] = 1} IN
    IF nz = {} THEN <<>>
    ELSE SubSeq(b, CHOOSE i \in nz : \A j \in nz : i <= j, Len(b))

\* binary digits of n, 0 <= n < 2^30; IntBits(0) = <<>>
IntBits(n) == StripZeros(BitsOf(n, 30))

RECURSIVE BitsVal(_, _)
\* the number the first n bits of b denote (n <= 30)
BitsVal(b, n) == IF n = 0 THEN 0 ELSE 2 * BitsVal(b, n - 1) + b[n]

\* the number a bit string of at most 30 bits denotes
BitsInt(b) == BitsVal(b, Len(b))

\* b + 1; one bit longer when b is all ones
IncBits(b) ==
    LET z == {i \in 1..Len(b) : b[i] = 0} IN
    IF z = {} THEN <<1>> \o Zeros(Len(b))
    ELSE LET p == CHOOSE i \in z : \A j \in z : j <= i
         IN [i \in 1..Len(b) |-> IF i < p THEN b[i] ELSE IF i = p THEN 1 ELSE 0]

\* -1, 0, 1 as a < b, a = b, a > b, for bit strings of equal length
CmpBits(a, b) ==
    LET d == {i \in 1..Len(a) : a[i] /= b[i]} IN
    IF d = {} THEN 0
    ELSE LET i == CHOOSE j \in d : \A l \in d : j <= l
         IN IF a[i] > b[i] THEN 1 ELSE -1

\* number of 16-bit limbs of a bit string
NumLimbs(b) == (Len(b) + 15) \div 16

\* the 16-bit limbs of b, limb 1 the least significant
Limbs(b) ==
    LET n == NumLimbs(b) IN
    SubSeq([i \in 1..n |->
               LET hi == Len(b) - 16 * i + 1
               IN BitsInt(SubSeq(b, IF hi < 1 THEN 1 ELSE hi, Len(b) - 16 * (i - 1)))],
           1, n)

\* the bit string of limbs l[1..n], l[1] the least significant
Unlimb(l, n) ==
    [j \in 1..(16 * n) |-> (l[n - ((j - 1) \div 16)] \div 2^(15 - ((j - 1) % 16))) % 2]

\* a - b for bit strings of equal length with a >= b
SubBits(a, b) ==
    LET n == NumLimbs(a)
        la == Limbs(a)
        lb == Limbs(b)
        borrow[i \in 0..n] ==
            IF i = 0 THEN 0
            ELSE IF la[i] - lb[i] - borrow[i - 1] < 0 THEN 1 ELSE 0
        out == SubSeq([i \in 1..n |-> (la[i] - lb[i] - borrow[i - 1] + 65536) % 65536],
                      1, n)
    IN Unlimb(out, n)

\* b * m for a bit string b and a natural m < 2^14, without leading zeros
MulSmall(b, m) ==
    LET n == NumLimbs(b)
        lb == Limbs(b)
        carry[i \in 0..n] ==
            IF i = 0 THEN 0 ELSE (lb[i] * m + carry[i - 1]) \div 65536
        out == SubSeq([i \in 1..n |-> (lb[i] * m + carry[i - 1]) % 65536], 1, n)
    IN StripZeros(IntBits(carry[n]) \o Unlimb(out, n))

\* Prec quotient bits of N / D for D <= N < 2 * D, D < 2^14, then twice the
\* last remainder
DivBits(N, D) ==
    LET r0 == N - D
        q1 == (r0 * 65536) \div D
        r1 == (r0 * 65536) % D
        q2 == (r1 * 65536) \div D
        r2 == (r1 * 65536) % D
        q3 == (r2 * 65536) \div D
        r3 == (r2 * 65536) % D
        w  == Prec - 49
        q4 == (r3 * 2^w) \div D
        r4 == (r3 * 2^w) % D
    IN <<1>> \o BitsOf(q1, 16) \o BitsOf(q2, 16) \o BitsOf(q3, 16) \o BitsOf(q4, w)
           \o <<2 * r4>>

RECURSIVE ShiftUp(_, _)
\* the least s with x * 2^s >= a  (x >= 1)
ShiftUp(x, a) == IF x >= a THEN 0 ELSE 1 + ShiftUp(2 * x, a)

RECURSIVE ShiftDown(_, _)
\* the greatest t with a * 2^t <= x  (x >= a >= 1)
ShiftDown(x, a) == IF 2 * a > x THEN 0 ELSE 1 + ShiftDown(x, 2 * a)

-----------------------------------------------------------------------------
(* Python floats *)

FZero == [neg |-> FALSE, sig |-> <<>>, exp |-> 0]

\* keep (Prec bits, leading 1) * 2^e, rounded up by one unit when up
FFinish(neg, keep, up, e) ==
    LET r == IF up THEN IncBits(keep) ELSE keep
    IN IF Len(r) > Prec
       THEN [neg |-> neg, sig |-> SubSeq(r, 1, Prec), exp |-> e + 1]
       ELSE [neg |-> neg, sig |-> r, exp |-> e]

\* the float nearest to bits * 2^e (ties to even); bits has a leading 1 or is empty
FRoundBits(neg, bits, e) ==
    LET L == Len(bits) IN
    IF L = 0 THEN FZero
    ELSE IF L <= Prec
    THEN [neg |-> neg, sig |-> bits \o Zeros(Prec - L), exp |-> e - (Prec - L)]
    ELSE LET keep == SubSeq(bits, 1, Prec)
             guard == bits[Prec + 1]
             sticky == \E i \in (Prec + 2)..L : bits[i] = 1
         IN FFinish(neg, keep, guard = 1 /\ (sticky \/ keep[Prec] = 1), e + (L - Prec))

\* float(n) for an int n
FFromInt(n) == FRoundBits(n < 0, IntBits(IF n < 0 THEN -n ELSE n), 0)

\* x / a for ints x and a > 0: the correctly rounded quotient
FDiv(x, a) ==
    IF x = 0 THEN FZero
    ELSE LET m == IF x < 0 THEN -x ELSE x
             s == ShiftUp(m, a)
             t == IF m >= a THEN ShiftDown(m, a) ELSE 0
             D == a * 2^t
             q == DivBits(m * 2^s, D)
             keep == SubSeq(q, 1, Prec)
             rem2 == q[Prec + 1]
         IN FFinish(x < 0, keep, rem2 > D \/ (rem2 = D /\ keep[Prec] = 1),
                    t - s - (Prec - 1))

\* f * n for a float f and an int n >= 0: the correctly rounded product
FMulInt(f, n) ==
    IF f.sig = <<>> \/ n = 0 THEN FZero
    ELSE FRoundBits(f.neg, MulSmall(f.sig, n), f.exp)

\* -1, 0, 1 as |f| < |g|, |f| = |g|, |f| > |g|
FCmpMag(f, g) ==
    IF f.sig = <<>> /\ g.sig = <<>> THEN 0
    ELSE IF f.sig = <<>> THEN -1
    ELSE IF g.sig = <<>> THEN 1
    ELSE IF f.exp /= g.exp THEN (IF f.exp > g.exp THEN 1 ELSE -1)
    ELSE CmpBits(f.sig, g.sig)

\* f < g
FLt(f, g) ==
    IF f.neg /= g.neg THEN f.neg
    ELSE IF f.neg THEN FCmpMag(f, g) = 1
    ELSE FCmpMag(f, g) = -1

\* f <= g
FLe(f, g) == f = g \/ FLt(f, g)

\* n - f for an int n >= 0 and a float f >= 0: the correctly rounded difference
FIntSub(n, f) ==
    LET g == FFromInt(n) IN
    IF f.sig = <<>> THEN g
    ELSE IF g.sig = <<>> THEN [f EXCEPT !.neg = TRUE]
    ELSE LET e == IF g.exp < f.exp THEN g.exp ELSE f.exp
             gb == g.sig \o Zeros(g.exp - e)
             fb == f.sig \o Zeros(f.exp - e)
             L == IF Len(gb) > Len(fb) THEN Len(gb) ELSE Len(fb)
             ga == Zeros(L - Len(gb)) \o gb
             fa == Zeros(L - Len(fb)) \o fb
             c == CmpBits(ga, fa)
         IN IF c = 0 THEN FZero
            ELSE IF c = 1 THEN FRoundBits(FALSE, StripZeros(SubBits(ga, fa)), e)
            ELSE FRoundBits(TRUE, StripZeros(SubBits(fa, ga)), e)

\* round(f): the nearest int, ties to even (for |f| < 2^Prec)
FNearest(f) ==
    LET L == Prec + f.exp
        mag == IF f.sig = <<>> \/ L < 0 THEN 0
               ELSE IF f.exp >= 0 THEN BitsInt(StripZeros(f.sig)) * 2^(f.exp)
               ELSE LET whole == BitsInt(SubSeq(f.sig, 1, L))
                        guard == f.sig[L + 1]
                        sticky == \E i \in (L + 2)..Prec : f.sig[i] = 1
                    IN IF guard = 1 /\ (sticky \/ whole % 2 = 1)
                       THEN whole + 1 ELSE whole
    IN IF f.neg THEN -mag ELSE mag

-----------------------------------------------------------------------------
(* Inputs *)

\* a texture file: its identifier and whether it can be decoded
FileKinds == [name : Names, ok : BOOLEAN]

\* every list of at most MaxFiles texture files
FileLists == UNION {[1..n -> FileKinds] : n \in 0..MaxFiles}

\* path order of two identifiers
NameBefore(m, n) == m = "a" /\ n = "b"

\* lists main() can pass on: sorted paths, one file per extension and identifier
GlobLists ==
    {l \in FileLists :
        /\ \A i, j \in 1..Len(l) : i < j => ~NameBefore(l[j].name, l[i].name)
        /\ \A n \in Names : Cardinality({i \in 1..Len(l) : l[i].name = n}) <= NumExtensions}

\* the metadata dict before create_atlas builds it
NoMetadata ==
    [texture_size |-> 0, atlas_size |-> 0, textures_per_row |-> 0,
     textures |-> [n \in {} |-> 0]]

\* the UV probe when it is not in use
NoProbe == [stage |-> "off"]

-----------------------------------------------------------------------------
(* TextureAtlasBuilder *)

\* self.textures_per_row
textures_per_row == target_atlas_size \div texture_size

\* self.max_textures
max_textures == textures_per_row * textures_per_row

\* a list that is never cut
Untruncated(files, cap) == files

\* texture_files after the capacity check
Truncated(files, cap) ==
    IF Len(files) > cap THEN SubSeq(files, 1, cap) ELSE files

RECURSIVE FloorSqrt(_)
\* math.floor(math.sqrt(n)): math.sqrt is exact on the perfect squares below
\* 2^52 and lies strictly between two integers on the other n below 2^52
FloorSqrt(n) ==
    IF n < 4 THEN (IF n = 0 THEN 0 ELSE 1)
    ELSE LET r == 2 * FloorSqrt(n \div 4)
         IN IF (r + 1) * (r + 1) <= n THEN r + 1 ELSE r

\* the square root rounded down instead of up
TruncSqrt(n) == FloorSqrt(n)

\* math.ceil(math.sqrt(n))
CeilSqrt(n) ==
    LET r == FloorSqrt(n) IN IF r * r = n THEN r ELSE r + 1

\* the utilization print never raising
UtilizationNeverRaises(n, k) == FALSE

\* num_textures / (textures_per_side ** 2) raises ZeroDivisionError
UtilizationRaises(n, k) == k * k = 0

\* the column taken in the builder's target grid
CellColOfTarget(i, k) == i % textures_per_row

\* col = idx % textures_per_side
CellCol(i, k) == i % k

\* row = idx // textures_per_side
CellRow(i, k) == i \div k

\* uv_min_x = x / actual_atlas_size
UVMinX(x, T, A) == FDiv(x, A)

\* uv_min_y without the vertical flip
UVMinYUnflipped(y, T, A) == FDiv(y, A)

\* uv_min_y = (actual_atlas_size - y - self.texture_size) / actual_atlas_size
UVMinY(y, T, A) == FDiv(A - y - T, A)

\* uv_max_x = (x + self.texture_size) / actual_atlas_size
UVMaxX(x, T, A) == FDiv(x + T, A)

\* uv_max_y = (actual_atlas_size - y) / actual_atlas_size
UVMaxY(y, T, A) == FDiv(A - y, A)

\* the metadata entry of the texture placed at index i of a k x k grid of T-tiles
PlacementEntry(i, T, k, A) ==
    LET x == CellCol(i, k) * T
        y == CellRow(i, k) * T
    IN [index |-> i,
        position |-> <<x, y>>,
        uv |-> [min |-> <<UVMinX(x, T, A), UVMinY(y, T, A)>>,
                max |-> <<UVMaxX(x, T, A), UVMaxY(y, T, A)>>]]

\* atlas.paste(tex, (x, y)): the tile replaces what the image held there
Paste(img, src, x, y) ==
    {p \in img : p.x /= x \/ p.y /= y} \cup {[src |-> src, x |-> x, y |-> y]}

\* a dict that keeps the entry it already has for a key
RecordFirst(textures, name, e) ==
    [n \in DOMAIN textures \cup {name} |->
        IF n \in DOMAIN textures THEN textures[n] ELSE e]

\* metadata['textures'][tex_name] = {...}
Record(textures, name, e) ==
    [n \in DOMAIN textures \cup {name} |-> IF n = name THEN e ELSE textures[n]]

\* the grid index a texture would get if only decoded textures were counted
PlaceIndexCompact == Cardinality(atlas)

\* idx of enumerate(texture_files)
PlaceIndex == idx

-----------------------------------------------------------------------------
(* Initial states *)

InitLocals ==
    /\ texture_files = <<>>
    /\ num_textures = 0
    /\ textures_per_side = 0
    /\ actual_atlas_size = 0
    /\ idx = 0
    /\ atlas = {}
    /\ metadata = NoMetadata
    /\ atlas_file = "absent"
    /\ meta_file = "absent"
    /\ error = "none"
    /\ ret = -1

\* python atlas_generator.py
InitMain ==
    /\ entry = "main"
    /\ pc = "main"
    /\ texture_size = TEXTURE_SIZE
    /\ target_atlas_size = ATLAS_SIZE
    /\ metadata_path = TRUE
    /\ supplied \in GlobLists

\* TextureAtlasBuilder(T, S).create_atlas(files, output_path[, metadata_path])
InitDirect ==
    /\ entry = "direct"
    /\ pc = "create_atlas"
    /\ \E c \in DirectConfigs : texture_size = c[1] /\ target_atlas_size = c[2]
    /\ metadata_path \in BOOLEAN
    /\ supplied \in FileLists

Init == (InitMain \/ InitDirect) /\ InitLocals /\ probe = NoProbe

-----------------------------------------------------------------------------
(* main() *)

\* glob, the empty check, sort, the builder's construction
MainGlob ==
    /\ pc = "main"
    /\ IF supplied = <<>>
       THEN pc' = "exit" /\ ret' = 1
       ELSE pc' = "create_atlas" /\ ret' = ret
    /\ UNCHANGED <<entry, texture_size, target_atlas_size, metadata_path, supplied,
                   texture_files, num_textures, textures_per_side,
                   actual_atlas_size, idx, atlas, metadata, atlas_file, meta_file,
                   error, probe>>

\* the statistics and return 0
MainFinish ==
    /\ pc = "done"
    /\ entry = "main"
    /\ pc' = "exit"
    /\ ret' = 0
    /\ UNCHANGED <<entry, texture_size, target_atlas_size, metadata_path, supplied,
                   texture_files, num_textures, textures_per_side,
                   actual_atlas_size, idx, atlas, metadata, atlas_file, meta_file,
                   error, probe>>

-----------------------------------------------------------------------------
(* create_atlas() *)

\* num_textures = len(texture_files) and the capacity check
CapacityCheck ==
    /\ pc = "create_atlas"
    /\ texture_files' = Truncated(supplied, max_textures)
    /\ num_textures' = Len(texture_files')
    /\ pc' = "layout"
    /\ UNCHANGED <<entry, texture_size, target_atlas_size, metadata_path, supplied,
                   textures_per_side, actual_atlas_size, idx, atlas, metadata,
                   atlas_file, meta_file, error, ret, probe>>

\* the grid, the prints, Image.new and the metadata dict
Layout ==
    /\ pc = "layout"
    /\ textures_per_side' = CeilSqrt(num_textures)
    /\ actual_atlas_size' = textures_per_side' * texture_size
    /\ IF UtilizationRaises(num_textures, textures_per_side')
       THEN /\ error' = "ZeroDivisionError"
            /\ pc' = "failed"
            /\ UNCHANGED <<idx, atlas, metadata>>
       ELSE /\ error' = error
            /\ pc' = "loop"
            /\ idx' = 0
            /\ atlas' = {}
            /\ metadata' = [texture_size |-> texture_size,
                            atlas_size |-> actual_atlas_size',
                            textures_per_row |-> textures_per_side',
                            textures |-> [n \in {} |-> 0]]
    /\ UNCHANGED <<entry, texture_size, target_atlas_size, metadata_path, supplied,
                   texture_files, num_textures, atlas_file, meta_file, ret, probe>>

\* one iteration of the loop over enumerate(texture_files)
PlaceTexture ==
    /\ pc = "loop"
    /\ idx < num_textures
    /\ LET tex == texture_files[idx + 1]
           e == PlacementEntry(PlaceIndex, texture_size, textures_per_side,
                               actual_atlas_size)
       IN IF tex.ok
          THEN /\ atlas' = Paste(atlas, idx, e.position[1], e.position[2])
               /\ metadata' = [metadata EXCEPT
                                 !.textures = Record(@, tex.name, e)]
          ELSE UNCHANGED <<atlas, metadata>>
    /\ idx' = idx + 1
    /\ UNCHANGED <<pc, entry, texture_size, target_atlas_size, metadata_path,
                   supplied, texture_files, num_textures, textures_per_side,
                   actual_atlas_size, atlas_file, meta_file, error, ret, probe>>

\* os.makedirs(...) and atlas.save(output_path)
SaveAtlas ==
    /\ pc = "loop"
    /\ idx = num_textures
    /\ \/ /\ error' = "OSError"          \* os.makedirs raises
          /\ pc' = "failed"
          /\ atlas_file' = atlas_file
       \/ /\ error' = "OSError"          \* atlas.save raises
          /\ pc' = "failed"
          /\ atlas_file' \in {"absent", "partial"}
       \/ /\ error' = error
          /\ pc' = "save_metadata"
          /\ atlas_file' = "complete"
    /\ UNCHANGED <<entry, texture_size, target_atlas_size, metadata_path, supplied,
                   texture_files, num_textures, textures_per_side,
                   actual_atlas_size, idx, atlas, metadata, meta_file, ret, probe>>

\* if metadata_path: open, json.dump; return metadata
SaveMetadata ==
    /\ pc = "save_metadata"
    /\ IF metadata_path
       THEN \/ /\ error' = "OSError"     \* open(metadata_path, 'w') raises
               /\ pc' = "failed"
               /\ meta_file' = meta_file
            \/ /\ error' = "OSError"     \* the write raises
               /\ pc' = "failed"
               /\ meta_file' = "partial"
            \/ /\ error' = error
               /\ pc' = "done"
               /\ meta_file' = "complete"
       ELSE /\ error' = error
            /\ pc' = "done"
            /\ meta_file' = meta_file
    /\ UNCHANGED <<entry, texture_size, target_atlas_size, metadata_path, supplied,
                   texture_files, num_textures, textures_per_side,
                   actual_atlas_size, idx, atlas, metadata, atlas_file, ret, probe>>

Next ==
    \/ MainGlob
    \/ CapacityCheck
    \/ Layout
    \/ PlaceTexture
    \/ SaveAtlas
    \/ SaveMetadata
    \/ MainFinish

Spec == Init /\ [][Next]_vars

-----------------------------------------------------------------------------
(* The UV probe: one placement of a k x k grid and the consumer's inverse   *)
(* transform of its UV rectangle                                           *)

InitUV ==
    /\ pc = "probe"
    /\ entry = "direct"
    /\ texture_size = TEXTURE_SIZE
    /\ target_atlas_size = ATLAS_SIZE
    /\ metadata_path = FALSE
    /\ supplied = <<>>
    /\ InitLocals
    /\ \E T \in ProbeTileSizes, k \in 1..MaxSide :
         \E i \in 0..(k * k - 1) :
            probe = [stage |-> "input", T |-> T, k |-> k, i |-> i]

\* the placement computation of one loop iteration
ProbePlace ==
    /\ probe.stage = "input"
    /\ probe' = [stage |-> "placed", T |-> probe.T, k |-> probe.k, i |-> probe.i,
                 entry |-> PlacementEntry(probe.i, probe.T, probe.k, probe.k * probe.T)]
    /\ UNCHANGED <<pc, entry, texture_size, target_atlas_size, metadata_path,
                   supplied, texture_files, num_textures, textures_per_side,
                   actual_atlas_size, idx, atlas, metadata, atlas_file, meta_file,
                   error, ret>>

\* u * A
InverseU(u, A) == FMulInt(u, A)

\* A - v * A
InverseV(v, A) == FIntSub(A, FMulInt(v, A))

\* the pixel rectangle (left, top, right, bottom) recovered from the UV rectangle
ProbeInvert ==
    /\ probe.stage = "placed"
    /\ LET A == probe.k * probe.T
           uv == probe.entry.uv
       IN probe' = [stage |-> "inverted", T |-> probe.T, k |-> probe.k, i |-> probe.i,
                    entry |-> probe.entry,
                    rect |-> <<InverseU(uv.min[1], A), InverseV(uv.max[2], A),
                               InverseU(uv.max[1], A), InverseV(uv.min[2], A)>>]
    /\ UNCHANGED <<pc, entry, texture_size, target_atlas_size, metadata_path,
                   supplied, texture_files, num_textures, textures_per_side,
                   actual_atlas_size, idx, atlas, metadata, atlas_file, meta_file,
                   error, ret>>

NextUV ==
    \/ ProbePlace
    \/ ProbeInvert

SpecUV == InitUV /\ [][NextUV]_vars

-----------------------------------------------------------------------------
(* Properties *)

\* create_atlas has chosen the grid and built the image and the metadata dict
LaidOut ==
    \/ pc \in {"loop", "save_metadata", "done"}
    \/ pc = "exit" /\ ret = 0
    \/ pc = "failed" /\ error = "OSError"

\* create_atlas has returned its metadata
Returned == pc = "done" \/ (pc = "exit" /\ ret = 0)

\* indices of the textures the loop has decoded so far
Decoded == {i \in 0..(idx - 1) : texture_files[i + 1].ok}

\* pixel origin of grid cell i
CellOrigin(i) ==
    <<(i % textures_per_side) * texture_size, (i \div textures_per_side) * texture_size>>

\* the metadata entries
Entries == {metadata.textures[n] : n \in DOMAIN metadata.textures}

\* C1: for n >= 1 textures (after truncation) the grid side k is the least
\* integer with k*k >= n, and the metadata reports atlas_size = k*T and
\* textures_per_row = k.
C1_GridIsCeilSqrt ==
    (LaidOut /\ num_textures >= 1) =>
        LET k == textures_per_side IN
        /\ num_textures = Len(texture_files)
        /\ k * k >= num_textures
        /\ (k - 1) * (k - 1) < num_textures
        /\ actual_atlas_size = k * texture_size
        /\ metadata.texture_size = texture_size
        /\ metadata.atlas_size = k * texture_size
        /\ metadata.textures_per_row = k

\* C1 witness: five 16-pixel textures were laid out on a 3 x 3 grid of 48 pixels
C1_Witness ==
    /\ Returned
    /\ num_textures = 5
    /\ texture_size = 16
    /\ metadata.textures_per_row = 3
    /\ metadata.atlas_size = 48

\* C2: after a run in which no decode fails, the 'index' values of the
\* metadata entries are exactly {0, ..., n-1}, one entry per index.
C2_IndicesCoverAll ==
    (Returned /\ \A i \in 1..num_textures : texture_files[i].ok) =>
        /\ {e.index : e \in Entries} = 0..(num_textures - 1)
        /\ Cardinality(DOMAIN metadata.textures) = num_textures

\* C3: every placement (tile pasted, entry recorded) sits at the cell of its
\* index, x = (idx % k)*T, y = (idx / k)*T, and lies inside the atlas.
C3_CellsInsideAtlas ==
    LaidOut =>
        /\ \A p \in atlas :
            /\ <<p.x, p.y>> = CellOrigin(p.src)
            /\ 0 <= p.x /\ 0 <= p.y
            /\ p.x + texture_size <= actual_atlas_size
            /\ p.y + texture_size <= actual_atlas_size
        /\ \A e \in Entries :
            /\ e.position = CellOrigin(e.index)
            /\ 0 <= e.position[1] /\ 0 <= e.position[2]
            /\ e.position[1] + texture_size <= actual_atlas_size
            /\ e.position[2] + texture_size <= actual_atlas_size

\* C3 witness: a tile other than the first fills the atlas's last cell
C3_Witness ==
    /\ Returned
    /\ \E p \in atlas :
        /\ p.src > 0
        /\ p.x + texture_size = actual_atlas_size
        /\ p.y + texture_size = actual_atlas_size

\* C4: with more files than capacity = floor(target/T)^2 the run does not
\* fail for it (only an output write can fail), it processes exactly the
\* first capacity files and lays them out with n = capacity; with at most
\* capacity files it processes them all.
C4_TruncationNeverFails ==
    (pc \notin {"main", "create_atlas"} /\ ~(pc = "exit" /\ ret = 1)) =>
        /\ Len(supplied) > max_textures =>
            /\ texture_files = SubSeq(supplied, 1, max_textures)
            /\ num_textures = max_textures
            /\ error /= "ZeroDivisionError"
        /\ Len(supplied) <= max_textures =>
            /\ texture_files = supplied
            /\ num_textures = Len(supplied)
        /\ \A p \in atlas : p.src < num_textures
        /\ \A e \in Entries : e.index < num_textures
        /\ Returned => idx = num_textures

\* C5: a texture that cannot be decoded gets no entry and no tile, its cell
\* stays transparent, every decoded texture sits at the cell of its own
\* index, and the run goes on to write its outputs.
C5_DecodeFailureSkipped ==
    LaidOut =>
        /\ \A i \in 0..(idx - 1) :
            IF texture_files[i + 1].ok
            THEN [src |-> i, x |-> CellOrigin(i)[1], y |-> CellOrigin(i)[2]] \in atlas
            ELSE /\ \A p \in atlas : p.src /= i /\ <<p.x, p.y>> /= CellOrigin(i)
                 /\ \A e \in Entries : e.index /= i
        /\ \A e \in Entries : e.index \in Decoded /\ e.position = CellOrigin(e.index)
        /\ pc = "failed" => idx = num_textures
        /\ Returned =>
            /\ idx = num_textures
            /\ atlas_file = "complete"
            /\ metadata_path => meta_file = "complete"

\* C5 witness: a run over three files whose second failed to decode returned
\* with two entries, the third texture in the third cell, and its outputs written
C5_Witness ==
    /\ Returned
    /\ num_textures = 3
    /\ ~texture_files[2].ok
    /\ Cardinality(DOMAIN metadata.textures) = 2
    /\ \E p \in atlas : p.src = 2 /\ <<p.x, p.y>> = CellOrigin(2)
    /\ atlas_file = "complete"
    /\ meta_file = "complete"

\* C6: with zero source textures no atlas image and no metadata file is
\* written and the caller is told of the failure: main() returns 1, a direct
\* create_atlas([]) raises.
C6_NoInputsFails ==
    supplied = <<>> =>
        /\ atlas_file = "absent"
        /\ meta_file = "absent"
        /\ ~Returned
        /\ pc \notin {"loop", "save_metadata"}
        /\ pc = "exit" => ret = 1
        /\ (entry = "direct" /\ pc \notin {"create_atlas", "layout"}) =>
              (pc = "failed" /\ error /= "none")
        /\ (entry = "main" /\ pc /= "main") => (pc = "exit" /\ ret = 1)

\* C6 witness: a direct call with an empty list ended in an exception
C6_Witness ==
    /\ supplied = <<>>
    /\ entry = "direct"
    /\ pc = "failed"
    /\ error = "ZeroDivisionError"

\* C8: two decoded files with the same identifier are both pasted at their
\* own cells; the metadata holds one entry per distinct identifier among the
\* decoded files, and it is the one of the last file with that identifier.
C8_CollisionLastWins ==
    LaidOut =>
        /\ DOMAIN metadata.textures = {texture_files[i + 1].name : i \in Decoded}
        /\ \A n \in DOMAIN metadata.textures :
            LET last == CHOOSE j \in Decoded :
                           /\ texture_files[j + 1].name = n
                           /\ \A i \in Decoded : texture_files[i + 1].name = n => i <= j
            IN /\ metadata.textures[n].index = last
               /\ metadata.textures[n].position = CellOrigin(last)
        /\ \A i \in Decoded :
            [src |-> i, x |-> CellOrigin(i)[1], y |-> CellOrigin(i)[2]] \in atlas
        /\ Cardinality(atlas) = Cardinality(Decoded)

\* C8 witness: two decoded files shared an identifier; both are in the atlas
\* and the metadata has fewer entries than the atlas has tiles
C8_Witness ==
    /\ Returned
    /\ \E i, j \in Decoded :
        /\ i < j
        /\ texture_files[i + 1].name = texture_files[j + 1].name
        /\ metadata.textures[texture_files[j + 1].name].index = j
    /\ Cardinality(DOMAIN metadata.textures) < Cardinality(atlas)

\* C9: an output write failure is surfaced to the caller and leaves nothing
\* ambiguous: the atlas file is written completely or not at all, and no run
\* ends with the atlas file on disk and its requested metadata file not written.
C9_OutputsNeverAmbiguous ==
    /\ atlas_file \in {"absent", "complete"}
    /\ pc = "failed" => error /= "none"
    /\ (pc \in {"failed", "done", "exit"} /\ atlas_file = "complete" /\ metadata_path)
          => meta_file = "complete"

\* C10: for T >= 1, target >= T and at least one input, n <= floor(target/T)^2
\* after truncation, the grid side is at most floor(target/T) and the atlas
\* is no larger than the target.
C10_AtlasWithinTarget ==
    (/\ texture_size >= 1
     /\ target_atlas_size >= texture_size
     /\ Len(supplied) >= 1
     /\ pc \notin {"main", "create_atlas"}) =>
        /\ num_textures >= 1
        /\ num_textures <= max_textures
        /\ pc /= "layout" =>
            /\ textures_per_side <= textures_per_row
            /\ actual_atlas_size <= target_atlas_size
            /\ error /= "ZeroDivisionError"
            /\ metadata.atlas_size = actual_atlas_size

\* C10 witness: a truncated run whose atlas is exactly as large as the target
C10_Witness ==
    /\ Returned
    /\ Len(supplied) > max_textures
    /\ num_textures > 1
    /\ metadata.atlas_size = target_atlas_size

-----------------------------------------------------------------------------
(* Properties of the UV probe *)

\* the integer rectangle (x, y, x+T, y+T) of the probe's entry
ProbeRect ==
    LET x == probe.entry.position[1]
        y == probe.entry.position[2]
    IN <<x, y, x + probe.T, y + probe.T>>

\* all four UV values lie in [0, 1] and min < max on both axes
ProbeUVInRange ==
    LET uv == probe.entry.uv IN
    /\ \A c \in 1..2 :
        /\ FLe(FZero, uv.min[c]) /\ FLe(uv.min[c], FFromInt(1))
        /\ FLe(FZero, uv.max[c]) /\ FLe(uv.max[c], FFromInt(1))
        /\ FLt(uv.min[c], uv.max[c])

\* C7 as stated: the inverse transform (u*A, A - v*A) of the UV rectangle is
\* exactly the pixel rectangle (x, y, x+T, y+T) of the entry's position, and
\* the UV values lie in [0,1] with min < max.
C7_RoundTripExact ==
    probe.stage = "inverted" =>
        /\ probe.entry.position =
              <<CellCol(probe.i, probe.k) * probe.T, CellRow(probe.i, probe.k) * probe.T>>
        /\ \A c \in 1..4 : probe.rect[c] = FFromInt(ProbeRect[c])
        /\ ProbeUVInRange

\* C7 amended: the inverse transform recovers the pixel rectangle up to
\* floating-point rounding: each coordinate it yields rounds to the pixel
\* coordinate and is less than 1/2048 away from it; the UV values lie in
\* [0,1] with min < max.
C7_RoundTripRounded ==
    probe.stage = "inverted" =>
        /\ probe.entry.position =
              <<CellCol(probe.i, probe.k) * probe.T, CellRow(probe.i, probe.k) * probe.T>>
        /\ \A c \in 1..4 :
            /\ FNearest(probe.rect[c]) = ProbeRect[c]
            /\ FNearest(FMulInt(probe.rect[c], 1024)) = 1024 * ProbeRect[c]
        /\ ProbeUVInRange

\* C7 witness: a placement whose recovered rectangle is not the exact one
C7_Witness ==
    /\ probe.stage = "inverted"
    /\ probe.T = 16
    /\ probe.i > 0
    /\ \E c \in 1..4 : probe.rect[c] /= FFromInt(ProbeRect[c])

====
